---- MODULE Spec2Model ----
(***************************************************************************)
(* Amber: the scope/symbol engine (src/utils/memory.rs) and the division   *)
(* expression node (src/modules/expression/binop/div.rs).                  *)
(*                                                                         *)
(* A Memory is modelled by the variables scopes, function_map,             *)
(* variable_id and exports.  old_meta is the function map of a second      *)
(* analysis context, the argument of set_function_map.  ret records the    *)
(* last operation, its name argument and its return value.  panicked       *)
(* records that an unwrap() on an empty scope stack aborted the program.   *)
(***************************************************************************)
EXTENDS Integers, Sequences, FiniteSets

VARIABLES scopes, function_map, variable_id, exports, old_meta,
          ret, panicked, var_log, fun_log, called,
          tokens, index, div, phase, result, translate_meta, output

\* var_log: the global ids add_variable handed out, in order.
\* fun_log: the ids add_function_declaration put into a FunctionDecl, in order.
\* called: the (function id, argument types) pairs call sites have asked for.
mem_vars == <<scopes, function_map, variable_id, exports, old_meta,
              ret, panicked, var_log, fun_log, called>>

\* tokens, index: the token stream of the ParserMetadata and the parser's place
\* in it.  div: the Div node.  phase: the node's lifecycle state.  result: what
\* parse returned.  translate_meta: the fragments the TranslateMetadata was
\* handed, in order.  output: what translate returned.
div_vars == <<tokens, index, div, phase, result, translate_meta, output>>

vars == <<mem_vars, div_vars>>

(***************************************************************************)
(* Bounds of the model.                                                    *)
(***************************************************************************)
MaxDepth == 2
MaxVarId == 3
MaxFunId == 3
MaxExports == 2
MaxInstances == 2

VarNames == {"x", "y"}
VarKinds == {"Num", "Text"}
FunNames == {"f", "g"}

(***************************************************************************)
(* Option<T>: None is the empty sequence, Some(v) the one-element one.     *)
(***************************************************************************)
None == <<>>
Some(v) == <<v>>

(***************************************************************************)
(* HashMap<String, V>: a function whose domain is the set of keys.         *)
(***************************************************************************)
HashMap_new == [k \in {} |-> None]
HashMap_insert(m, k, v) == [n \in (DOMAIN m) \cup {k} |-> IF n = k THEN v ELSE m[n]]
HashMap_get(m, k) == IF k \in DOMAIN m THEN Some(m[k]) ELSE None

ScopeUnit_new == [vars |-> HashMap_new, funs |-> HashMap_new]

VariableDecl(name, kind, global_id) ==
    [name |-> name, kind |-> kind, global_id |-> global_id]

(***************************************************************************)
(* FunctionDeclSyntax values handed to add_function_declaration.  args is  *)
(* the ordered sequence of (name, Type) pairs; body stands for the raw     *)
(* token sequence.  The ParserMetadata snapshot (meta) is opaque to        *)
(* Memory and is left out of the record.                                   *)
(***************************************************************************)
DeclSyntaxes ==
    { [name |-> "f", args |-> << <<"x", "Generic">> >>, returns |-> "Generic",
       body |-> "body_f1", is_public |-> TRUE],
      [name |-> "f", args |-> << <<"x", "Num">> >>, returns |-> "Num",
       body |-> "body_f2", is_public |-> FALSE],
      [name |-> "g", args |-> << >>, returns |-> "Null",
       body |-> "body_g1", is_public |-> FALSE],
      [name |-> "g", args |-> << <<"a", "Num">>, <<"b", "Generic">> >>, returns |-> "Text",
       body |-> "body_g2", is_public |-> TRUE] }

\* Mutant: one concrete parameter is enough (any() moved onto the negation).
IsTyped_any_concrete(args) == \E i \in DOMAIN args : args[i][2] # "Generic"

\* let typed = !decl.args.iter().any(|(_, kind)| kind == &Type::Generic)
IsTyped(args) == ~ \E i \in DOMAIN args : args[i][2] = "Generic"

FunctionDecl(decl, typed, id) ==
    [name |-> decl.name, args |-> decl.args, returns |-> decl.returns,
     is_public |-> decl.is_public, body |-> decl.body, typed |-> typed, id |-> id]

(***************************************************************************)
(* FunctionMap: function id -> sequence of instances, and the next id.     *)
(***************************************************************************)
FunctionMap_new == [map |-> HashMap_new, current_id |-> 0]

FunctionMap_add_declaration(fm) ==
    [map |-> HashMap_insert(fm.map, fm.current_id, << >>),
     current_id |-> fm.current_id + 1]

FunctionMap_get(fm, id) == HashMap_get(fm.map, id)

FunctionInstance(args, returns, body) ==
    [args |-> args, returns |-> returns, body |-> body]

\* add_instance on an id the map holds appends; on an id it does not hold the
\* map is either left alone or given a new one-instance sequence.
FunctionMap_add_instance_outcomes(fm, id, inst) ==
    IF id \in DOMAIN fm.map
    THEN { [fm |-> [fm EXCEPT !.map = HashMap_insert(@, id, Append(fm.map[id], inst))],
            index |-> Len(fm.map[id])] }
    ELSE { [fm |-> fm, index |-> 0],
           [fm |-> [fm EXCEPT !.map = HashMap_insert(@, id, <<inst>>)], index |-> 0] }

(***************************************************************************)
(* Exports: the sequence of exported declarations.                         *)
(***************************************************************************)
Exports_new == << >>
Exports_add_function(ex, fun) == IF fun.is_public THEN Append(ex, fun) ELSE ex

(***************************************************************************)
(* The division node.  A token is a word and its position in the stream.   *)
(* An operand (Expr) holds the type it reports and the text it translates  *)
(* to; Expr::new reports Null.                                             *)
(***************************************************************************)
MaxTokens == 3
TokenWords == {"5", "2", "a", "/", "+"}

RECURSIVE TokenStreamsOfLen(_)
TokenStreamsOfLen(n) ==
    IF n = 0 THEN { << >> }
    ELSE { Append(t, w) : t \in TokenStreamsOfLen(n - 1), w \in TokenWords }

TokenStreams == UNION { TokenStreamsOfLen(n) : n \in 0..MaxTokens }

Token(toks, i) == [word |-> toks[i], pos |-> i]

\* meta.get_current_token(): the token at the parser's place, if any
get_current_token(toks, i) == IF i \in DOMAIN toks THEN Some(Token(toks, i)) ELSE None

Expr_new == [kind |-> "Null", text |-> ""]

LiteralKind(word) ==
    CASE word \in {"5", "2"} -> Some("Num")
      [] word = "a" -> Some("Text")
      [] OTHER -> None

\* syntax(meta, expr): parse one operand at place i
syntax(toks, i) ==
    IF i \in DOMAIN toks /\ LiteralKind(toks[i]) # None
    THEN [ok |-> TRUE, expr |-> [kind |-> LiteralKind(toks[i])[1], text |-> toks[i]],
          index |-> i + 1]
    ELSE [ok |-> FALSE, expr |-> Expr_new, index |-> i]

\* parse_left_expr(meta, left, op): parse the operand standing before op
parse_left_expr(toks, i, op) == syntax(toks, i)

\* token(meta, word): consume the current token if it is word
token(toks, i, word) ==
    IF i \in DOMAIN toks /\ toks[i] = word
    THEN [ok |-> TRUE, index |-> i + 1]
    ELSE [ok |-> FALSE, index |-> i]

Expr_get_type(expr) == expr.kind
Expr_translate(expr) == expr.text

\* expression_arms_of_type: TRUE when both arms report kind.  Otherwise it
\* raises the type error itself, tagged with the token and the message it was
\* given, and the parse that called it ends there: Div::parse does not read a
\* value from the call and never reaches its Ok(()).
expression_arms_of_type(left, right, kind) ==
    Expr_get_type(left) = kind /\ Expr_get_type(right) = kind

translate_computation(op, left, right) == [op |-> op, left |-> left, right |-> right]

(***************************************************************************)
(* Div                                                                     *)
(***************************************************************************)
Div_new == [left |-> Expr_new, right |-> Expr_new]

\* impl Typed for Div
Div_get_type(node) == "Num"

\* Mutant: the token is read after the operator was consumed, so that the
\* error points at the right operand.
Div_parse_tok_late(toks, after_left, after_token) == get_current_token(toks, after_token)

\* let tok = meta.get_current_token(), taken after the left operand
Div_parse_tok(toks, after_left, after_token) == get_current_token(toks, after_left)

\* Mutant: the arms are required to be Text.
Div_parse_kind_text == "Text"

\* the expected type handed to expression_arms_of_type
Div_parse_kind == "Num"

Div_parse_error == "Divide operation can only divide numbers"

NoError == [tok |-> None, message |-> ""]

\* The whole of Div::parse on node, from place i of toks.
Div_parse_outcome(node, toks, i) ==
    LET l == parse_left_expr(toks, i, "/")
        t == token(toks, l.index, "/")
        tok == Div_parse_tok(toks, l.index, t.index)
        r == syntax(toks, t.index)
        n1 == [node EXCEPT !.left = l.expr]
        n2 == [n1 EXCEPT !.right = r.expr]
    IN  IF ~l.ok THEN [result |-> "Err", div |-> node, index |-> l.index, error |-> NoError]
        ELSE IF ~t.ok THEN [result |-> "Err", div |-> n1, index |-> t.index, error |-> NoError]
        ELSE IF ~r.ok THEN [result |-> "Err", div |-> n1, index |-> r.index, error |-> NoError]
        ELSE IF ~expression_arms_of_type(n2.left, n2.right, Div_parse_kind)
             THEN [result |-> "TypeMismatch", div |-> n2, index |-> r.index,
                   error |-> [tok |-> tok, message |-> Div_parse_error]]
        ELSE [result |-> "Ok", div |-> n2, index |-> r.index, error |-> NoError]

\* Mutant: the right operand is translated first.
Div_translate_fragments_swapped(node) ==
    << Expr_translate(node.right), Expr_translate(node.left) >>

\* The whole of Div::translate: left, then right, then the computation.
Div_translate_fragments(node) == << Expr_translate(node.left), Expr_translate(node.right) >>

Div_translate_output(node) ==
    translate_computation("Div", Some(Expr_translate(node.left)),
                          Some(Expr_translate(node.right)))

InitNode ==
    /\ index = 1
    /\ div = Div_new
    /\ phase = "Constructed"
    /\ result = [result |-> "none", error |-> NoError]
    /\ translate_meta = << >>
    /\ output = None

Div_parse ==
    /\ phase = "Constructed"
    /\ LET o == Div_parse_outcome(div, tokens, index)
       IN  /\ div' = o.div
           /\ index' = o.index
           /\ result' = [result |-> o.result, error |-> o.error]
           /\ phase' = IF o.result = "Ok" THEN "Parsed" ELSE "Failed"
    /\ UNCHANGED <<tokens, translate_meta, output, mem_vars>>

\* The driver translates a node only when its parse returned Ok.
translate_allowed == phase = "Parsed"

Div_translate ==
    /\ translate_allowed
    /\ translate_meta' = translate_meta \o Div_translate_fragments(div)
    /\ output' = Some(Div_translate_output(div))
    /\ phase' = "Translated"
    /\ UNCHANGED <<tokens, index, div, result, mem_vars>>

(***************************************************************************)
(* Memory::new                                                             *)
(***************************************************************************)
InitMemory ==
    /\ scopes = << >>
    /\ function_map = FunctionMap_new
    /\ exports = Exports_new
    /\ variable_id = 0
    /\ old_meta = FunctionMap_new
    /\ ret = [op |-> "new", args |-> << >>, val |-> None]
    /\ panicked = FALSE
    /\ var_log = << >>
    /\ fun_log = << >>
    /\ called = {}

Init ==
    /\ InitMemory
    /\ InitNode
    /\ tokens = << >>

\* unwrap() on None: the program aborts.
Panic(args) ==
    /\ panicked' = TRUE
    /\ ret' = [op |-> "panic", args |-> args, val |-> None]

Return(op, args, val) ==
    /\ panicked' = FALSE
    /\ ret' = [op |-> op, args |-> args, val |-> val]

get_depth == Len(scopes)

push_scope ==
    /\ ~panicked
    /\ Len(scopes) < MaxDepth
    /\ scopes' = Append(scopes, ScopeUnit_new)
    /\ Return("push_scope", << >>, None)
    /\ UNCHANGED <<function_map, variable_id, exports, old_meta, var_log, fun_log, called, div_vars>>

\* Mutant: the frames leave in the order they were opened (the first frame goes).
pop_scope_first ==
    /\ ~panicked
    /\ IF scopes = << >>
       THEN /\ scopes' = scopes
            /\ Return("pop_scope", << >>, None)
       ELSE /\ scopes' = Tail(scopes)
            /\ Return("pop_scope", << >>, Some(Head(scopes)))
    /\ UNCHANGED <<function_map, variable_id, exports, old_meta, var_log, fun_log, called, div_vars>>

\* Mutant: the empty stack is unwrapped, as the declaring operations do.
pop_scope_unwrap ==
    /\ ~panicked
    /\ IF scopes = << >>
       THEN /\ scopes' = scopes
            /\ Panic(<< >>)
       ELSE /\ scopes' = SubSeq(scopes, 1, Len(scopes) - 1)
            /\ Return("pop_scope", << >>, Some(scopes[Len(scopes)]))
    /\ UNCHANGED <<function_map, variable_id, exports, old_meta, var_log, fun_log, called, div_vars>>

\* Mutant: the functions declared in the frame leave the function map with it.
pop_scope_drops_functions ==
    /\ ~panicked
    /\ IF scopes = << >>
       THEN /\ scopes' = scopes
            /\ function_map' = function_map
            /\ Return("pop_scope", << >>, None)
       ELSE /\ scopes' = SubSeq(scopes, 1, Len(scopes) - 1)
            /\ function_map' =
                  [function_map EXCEPT !.map =
                      [id \in DOMAIN @ \ { scopes[Len(scopes)].funs[n].id :
                                              n \in DOMAIN scopes[Len(scopes)].funs }
                          |-> @[id]]]
            /\ Return("pop_scope", << >>, Some(scopes[Len(scopes)]))
    /\ UNCHANGED <<variable_id, exports, old_meta, var_log, fun_log, called, div_vars>>

\* Vec::pop: the last frame, or None on an empty stack.
pop_scope ==
    /\ ~panicked
    /\ IF scopes = << >>
       THEN /\ scopes' = scopes
            /\ Return("pop_scope", << >>, None)
       ELSE /\ scopes' = SubSeq(scopes, 1, Len(scopes) - 1)
            /\ Return("pop_scope", << >>, Some(scopes[Len(scopes)]))
    /\ UNCHANGED <<function_map, variable_id, exports, old_meta, var_log, fun_log, called, div_vars>>

(***************************************************************************)
(* Memory::add_variable                                                    *)
(***************************************************************************)
\* let mut global_id = None; if global { global_id = Some(self.variable_id) }
add_variable_global_id(global) == IF global THEN Some(variable_id) ELSE None

\* Mutant: the counter moves on every declaration, global or not.
add_variable_next_id_always(global) == variable_id + 1

\* if global { self.variable_id += 1 }
add_variable_next_id(global) == IF global THEN variable_id + 1 ELSE variable_id

\* scope.vars.insert(name, VariableDecl { name, kind, global_id }) on the last frame
add_variable_insert(name, kind, global_id) ==
    [scopes EXCEPT ![Len(scopes)].vars =
        HashMap_insert(@, name, VariableDecl(name, kind, global_id))]

\* Mutant: an empty stack gets a frame for the binding instead of the unwrap.
add_variable_opens_frame(name, kind, global) ==
    /\ ~panicked
    /\ global => variable_id < MaxVarId
    /\ variable_id' = add_variable_next_id(global)
    /\ scopes' = IF scopes = << >>
                 THEN << [ScopeUnit_new EXCEPT !.vars =
                            HashMap_insert(@, name,
                                VariableDecl(name, kind, add_variable_global_id(global)))] >>
                 ELSE add_variable_insert(name, kind, add_variable_global_id(global))
    /\ Return("add_variable", <<name, kind, global>>, add_variable_global_id(global))
    /\ var_log' = IF global THEN Append(var_log, variable_id) ELSE var_log
    /\ UNCHANGED <<function_map, exports, old_meta, fun_log, called, div_vars>>

add_variable(name, kind, global) ==
    /\ ~panicked
    /\ global => variable_id < MaxVarId
    /\ variable_id' = add_variable_next_id(global)
    /\ IF scopes = << >>
       THEN /\ Panic(<<name, kind, global>>)
            /\ UNCHANGED <<scopes, var_log>>
       ELSE /\ scopes' = add_variable_insert(name, kind, add_variable_global_id(global))
            /\ Return("add_variable", <<name, kind, global>>, add_variable_global_id(global))
            /\ var_log' = IF global THEN Append(var_log, variable_id) ELSE var_log
    /\ UNCHANGED <<function_map, exports, old_meta, fun_log, called, div_vars>>

(***************************************************************************)
(* Memory::get_variable, Memory::get_function: scan the frames from the    *)
(* innermost (index i = Len(scopes)) to the outermost (index 1).           *)
(***************************************************************************)
RECURSIVE get_variable_from(_, _, _)
get_variable_from(sc, i, name) ==
    IF i = 0 THEN None
    ELSE IF HashMap_get(sc[i].vars, name) # None
         THEN HashMap_get(sc[i].vars, name)
         ELSE get_variable_from(sc, i - 1, name)

\* Mutant: the scan starts at the outermost frame.
RECURSIVE get_variable_upwards(_, _, _)
get_variable_upwards(sc, i, name) ==
    IF i > Len(sc) THEN None
    ELSE IF HashMap_get(sc[i].vars, name) # None
         THEN HashMap_get(sc[i].vars, name)
         ELSE get_variable_upwards(sc, i + 1, name)

get_variable_outermost_first(sc, name) == get_variable_upwards(sc, 1, name)

get_variable(sc, name) == get_variable_from(sc, Len(sc), name)

RECURSIVE get_function_from(_, _, _)
get_function_from(sc, i, name) ==
    IF i = 0 THEN None
    ELSE IF HashMap_get(sc[i].funs, name) # None
         THEN HashMap_get(sc[i].funs, name)
         ELSE get_function_from(sc, i - 1, name)

\* Mutant: only the innermost frame is asked.
get_function_innermost(sc, name) ==
    IF sc = << >> THEN None ELSE HashMap_get(sc[Len(sc)].funs, name)

get_function(sc, name) == get_function_from(sc, Len(sc), name)

\* A call of get_variable / get_function on this Memory: both take &self, so
\* the call answers and writes nothing.
Memory_get_variable(name) ==
    /\ ~panicked
    /\ Return("get_variable", <<name>>, get_variable(scopes, name))
    /\ UNCHANGED <<scopes, function_map, variable_id, exports, old_meta, var_log, fun_log, called, div_vars>>

Memory_get_function(name) ==
    /\ ~panicked
    /\ Return("get_function", <<name>>, get_function(scopes, name))
    /\ UNCHANGED <<scopes, function_map, variable_id, exports, old_meta, var_log, fun_log, called, div_vars>>

(***************************************************************************)
(* Memory::get_available_variables, Memory::get_available_functions        *)
(***************************************************************************)
RECURSIVE get_available_variables_from(_, _)
get_available_variables_from(sc, i) ==
    IF i = 0 THEN {}
    ELSE (DOMAIN sc[i].vars) \cup get_available_variables_from(sc, i - 1)

\* Mutant: only the innermost frame's names are collected.
get_available_variables_innermost(sc) ==
    IF sc = << >> THEN {} ELSE DOMAIN sc[Len(sc)].vars

get_available_variables(sc) == get_available_variables_from(sc, Len(sc))

RECURSIVE get_available_functions_from(_, _)
get_available_functions_from(sc, i) ==
    IF i = 0 THEN {}
    ELSE (DOMAIN sc[i].funs) \cup get_available_functions_from(sc, i - 1)

get_available_functions(sc) == get_available_functions_from(sc, Len(sc))

(***************************************************************************)
(* Memory::add_existing_function_declaration                               *)
(***************************************************************************)
\* Mutant: the answer is res.is_some().
add_existing_function_declaration_result_is_some(res) == res # None

\* res.is_none(), res the value scope.funs.insert returned
add_existing_function_declaration_result(res) == res = None

add_existing_function_declaration_exports(decl) == Exports_add_function(exports, decl)

add_existing_function_declaration(decl) ==
    /\ ~panicked
    /\ decl.is_public => Len(exports) < MaxExports
    /\ IF scopes = << >>
       THEN /\ Panic(<<decl>>)
            /\ UNCHANGED <<scopes, exports>>
       ELSE /\ exports' = add_existing_function_declaration_exports(decl)
            /\ scopes' = [scopes EXCEPT ![Len(scopes)].funs = HashMap_insert(@, decl.name, decl)]
            /\ Return("add_existing_function_declaration", <<decl>>,
                      add_existing_function_declaration_result(
                          HashMap_get(scopes[Len(scopes)].funs, decl.name)))
    /\ UNCHANGED <<function_map, variable_id, old_meta, var_log, fun_log, called, div_vars>>

(***************************************************************************)
(* Memory::add_function_declaration                                        *)
(***************************************************************************)
\* Mutant: the id is returned whether or not the name was new.
add_function_declaration_result_always(success, id) == Some(id)

\* if success.is_none() { Some(id) } else { None }
add_function_declaration_result(success, id) ==
    IF success = None THEN Some(id) ELSE None

\* let id = self.function_map.add_declaration()
add_function_declaration_id == function_map.current_id

\* Mutant: a name the innermost frame already binds keeps its declaration (the
\* insert becomes entry().or_insert()); the id is consumed all the same.
add_function_declaration_keep_old(decl) ==
    LET typed == IsTyped(decl.args)
        id == add_function_declaration_id
        function_declaration == FunctionDecl(decl, typed, id)
    IN  /\ ~panicked
        /\ function_map.current_id < MaxFunId
        /\ Len(fun_log) < MaxFunId
        /\ decl.is_public => Len(exports) < MaxExports
        /\ IF scopes = << >>
           THEN /\ Panic(<<decl>>)
                /\ UNCHANGED <<scopes, function_map, exports, fun_log>>
           ELSE /\ function_map' = FunctionMap_add_declaration(function_map)
                /\ scopes' = IF decl.name \in DOMAIN scopes[Len(scopes)].funs
                             THEN scopes
                             ELSE [scopes EXCEPT ![Len(scopes)].funs =
                                      HashMap_insert(@, decl.name, function_declaration)]
                /\ exports' = Exports_add_function(exports, function_declaration)
                /\ Return("add_function_declaration", <<decl>>,
                          add_function_declaration_result(
                              HashMap_get(scopes[Len(scopes)].funs, decl.name), id))
                /\ fun_log' = Append(fun_log, id)
        /\ UNCHANGED <<variable_id, old_meta, var_log, called, div_vars>>

add_function_declaration(decl) ==
    LET typed == IsTyped(decl.args)
        id == add_function_declaration_id
        function_declaration == FunctionDecl(decl, typed, id)
    IN  /\ ~panicked
        /\ function_map.current_id < MaxFunId
        /\ Len(fun_log) < MaxFunId
        /\ decl.is_public => Len(exports) < MaxExports
        /\ IF scopes = << >>
           THEN /\ Panic(<<decl>>)
                /\ UNCHANGED <<scopes, function_map, exports, fun_log>>
           ELSE /\ function_map' = FunctionMap_add_declaration(function_map)
                /\ scopes' = [scopes EXCEPT ![Len(scopes)].funs =
                                 HashMap_insert(@, decl.name, function_declaration)]
                /\ exports' = Exports_add_function(exports, function_declaration)
                /\ Return("add_function_declaration", <<decl>>,
                          add_function_declaration_result(
                              HashMap_get(scopes[Len(scopes)].funs, decl.name), id))
                /\ fun_log' = Append(fun_log, id)
        /\ UNCHANGED <<variable_id, old_meta, var_log, called, div_vars>>

(***************************************************************************)
(* Memory::add_function_instance, Memory::get_function_instances           *)
(***************************************************************************)
get_function_instances(fm, id) == FunctionMap_get(fm, id)

InstanceCount(fm, id) == IF id \in DOMAIN fm.map THEN Len(fm.map[id]) ELSE 0

\* Mutant: the instance is stored without its argument types.
add_function_instance_effect_without_args(id, args, returns, body) ==
    /\ ~panicked
    /\ InstanceCount(function_map, id) < MaxInstances
    /\ \E out \in FunctionMap_add_instance_outcomes(
                      function_map, id, FunctionInstance(<< >>, returns, body)) :
          /\ function_map' = out.fm
          /\ Return("add_function_instance", <<id, args>>, out.index)
    /\ UNCHANGED <<scopes, variable_id, exports, old_meta, var_log, fun_log, div_vars>>

add_function_instance_effect(id, args, returns, body) ==
    /\ ~panicked
    /\ InstanceCount(function_map, id) < MaxInstances
    /\ \E out \in FunctionMap_add_instance_outcomes(
                      function_map, id, FunctionInstance(args, returns, body)) :
          /\ function_map' = out.fm
          /\ Return("add_function_instance", <<id, args>>, out.index)
    /\ UNCHANGED <<scopes, variable_id, exports, old_meta, var_log, fun_log, div_vars>>

add_function_instance(id, args, returns, body) ==
    /\ add_function_instance_effect(id, args, returns, body)
    /\ UNCHANGED called

(***************************************************************************)
(* Memory::set_function_map                                                *)
(***************************************************************************)
\* Mutant: only the instances are taken over; this Memory keeps its own next id.
set_function_map_keep_id ==
    /\ ~panicked
    /\ function_map' = [map |-> old_meta.map, current_id |-> function_map.current_id]
    /\ Return("set_function_map", << >>, None)
    /\ UNCHANGED <<scopes, variable_id, exports, old_meta, var_log, fun_log, called, div_vars>>

\* self.function_map = old_meta.mem.function_map.clone()
set_function_map ==
    /\ ~panicked
    /\ function_map' = old_meta
    /\ Return("set_function_map", << >>, None)
    /\ UNCHANGED <<scopes, variable_id, exports, old_meta, var_log, fun_log, called, div_vars>>

(***************************************************************************)
(* The other analysis context (old_meta) declares functions, stores        *)
(* instances and takes over this Memory's function map with its own        *)
(* set_function_map.                                                       *)
(***************************************************************************)
old_meta_add_declaration ==
    /\ ~panicked
    /\ old_meta.current_id < MaxFunId
    /\ old_meta' = FunctionMap_add_declaration(old_meta)
    /\ UNCHANGED <<scopes, function_map, variable_id, exports, ret, panicked, var_log, fun_log, called, div_vars>>

old_meta_add_instance(id, args, returns, body) ==
    /\ ~panicked
    /\ InstanceCount(old_meta, id) < MaxInstances
    /\ \E out \in FunctionMap_add_instance_outcomes(
                      old_meta, id, FunctionInstance(args, returns, body)) :
          old_meta' = out.fm
    /\ UNCHANGED <<scopes, function_map, variable_id, exports, ret, panicked, var_log, fun_log, called, div_vars>>

old_meta_set_function_map ==
    /\ ~panicked
    /\ old_meta' = function_map
    /\ UNCHANGED <<scopes, function_map, variable_id, exports, ret, panicked, var_log, fun_log, called, div_vars>>

(***************************************************************************)
(* The instantiation protocol of a call site: resolve the name, look the   *)
(* instances of the declaration's id up, reuse the one whose argument      *)
(* types are equal position by position, otherwise store a new one.        *)
(***************************************************************************)
CallTypes == {"Num", "Text"}

\* The argument types a call may pass: one per parameter, any concrete type
\* for a Generic parameter, the declared type otherwise.
CallArgs(decl) ==
    { a \in UNION { [1..n -> CallTypes] : n \in {Len(decl.args)} } :
        \A i \in DOMAIN a : decl.args[i][2] \in {"Generic", a[i]} }

FindInstance(instances, args) == { i \in DOMAIN instances : instances[i].args = args }

call_function(name, args) ==
    /\ ~panicked
    /\ get_function(scopes, name) # None
    /\ LET decl == get_function(scopes, name)[1]
           instances == get_function_instances(function_map, decl.id)
       IN  /\ args \in CallArgs(decl)
           /\ instances # None
           /\ IF FindInstance(instances[1], args) # {}
              THEN /\ Return("call_function", <<name, args>>,
                             CHOOSE i \in FindInstance(instances[1], args) :
                                 \A j \in FindInstance(instances[1], args) : i <= j)
                   /\ called' = called \cup { <<decl.id, args>> }
                   /\ UNCHANGED <<scopes, function_map, variable_id, exports, old_meta,
                                  var_log, fun_log, div_vars>>
              ELSE /\ add_function_instance_effect(decl.id, args,
                          IF decl.returns = "Generic" THEN args[1] ELSE decl.returns, "block")
                   /\ called' = called \cup { <<decl.id, args>> }

(***************************************************************************)
(* Specifications.  Next is every operation of the Memory and of the node. *)
(* The others are Next restricted to the operations a group of properties  *)
(* is about, which keeps each state space small enough to enumerate.       *)
(***************************************************************************)
StoredDecls ==
    UNION { { scopes[i].funs[n] : n \in DOMAIN scopes[i].funs } : i \in DOMAIN scopes }

\* A declaration built in another context and carried over.
ImportedDecls ==
    { FunctionDecl([name |-> "g", args |-> << <<"a", "Num">> >>, returns |-> "Num",
                    body |-> "body_imported", is_public |-> TRUE], TRUE, 0) }

InstanceArgs == { <<"Num">>, <<"Text">> }

AllArgs == UNION { [1..n -> CallTypes] : n \in 0..2 }

Next ==
    \/ push_scope
    \/ pop_scope
    \/ \E n \in VarNames, k \in VarKinds, g \in BOOLEAN : add_variable(n, k, g)
    \/ \E n \in VarNames : Memory_get_variable(n)
    \/ \E n \in FunNames : Memory_get_function(n)
    \/ \E d \in DeclSyntaxes : add_function_declaration(d)
    \/ \E d \in StoredDecls \cup ImportedDecls : add_existing_function_declaration(d)
    \/ \E id \in 0..(MaxFunId - 1), a \in InstanceArgs :
          add_function_instance(id, a, a[1], "block")
    \/ \E n \in FunNames, a \in AllArgs : call_function(n, a)
    \/ set_function_map
    \/ old_meta_add_declaration
    \/ \E id \in 0..(MaxFunId - 1), a \in InstanceArgs :
          old_meta_add_instance(id, a, a[1], "block")
    \/ old_meta_set_function_map
    \/ Div_parse
    \/ Div_translate

Spec == Init /\ [][Next]_vars

\* Variables: scopes and variable declarations.
NextVar ==
    \/ push_scope
    \/ pop_scope
    \/ \E n \in VarNames, k \in VarKinds, g \in BOOLEAN : add_variable(n, k, g)

SpecVar == Init /\ [][NextVar]_vars

\* Global ids, with function declarations and function map hand-offs interleaved.
IdsSyntaxes == { d \in DeclSyntaxes : d.body = "body_g1" }

NextIds ==
    \/ push_scope
    \/ pop_scope
    \/ \E g \in BOOLEAN : add_variable("x", "Num", g)
    \/ \E d \in IdsSyntaxes : add_function_declaration(d)
    \/ set_function_map

SpecIds == Init /\ [][NextIds]_vars

\* Function declarations and exports.
NextFun ==
    \/ push_scope
    \/ pop_scope
    \/ \E d \in DeclSyntaxes : add_function_declaration(d)
    \/ \E d \in StoredDecls \cup ImportedDecls : add_existing_function_declaration(d)

SpecFun == Init /\ [][NextFun]_vars

\* Function ids under function map hand-offs.
MapSyntaxes == { d \in DeclSyntaxes : d.body \in {"body_f1", "body_g1"} }

NextMap ==
    \/ push_scope
    \/ pop_scope
    \/ \E d \in MapSyntaxes : add_function_declaration(d)
    \/ \E id \in 0..(MaxFunId - 1) : add_function_instance(id, <<"Num">>, "Num", "block")
    \/ set_function_map

SpecMap == Init /\ [][NextMap]_vars

\* The hand-off of a function map between this Memory and the other context,
\* each of which declares functions and stores instances of its own.
HandSyntaxes == { d \in DeclSyntaxes : d.body = "body_f1" }

NextHand ==
    \/ push_scope
    \/ \E d \in HandSyntaxes : add_function_declaration(d)
    \/ add_function_instance(0, <<"Num">>, "Num", "block")
    \/ set_function_map
    \/ old_meta_add_declaration
    \/ old_meta_add_instance(0, <<"Text">>, "Text", "block")

SpecHand == Init /\ [][NextHand]_vars

\* Name lookups between declarations of variables and functions.
NextLookup ==
    \/ push_scope
    \/ pop_scope
    \/ \E n \in VarNames : add_variable(n, "Num", FALSE)
    \/ \E d \in MapSyntaxes : add_function_declaration(d)
    \/ \E n \in VarNames : Memory_get_variable(n)
    \/ \E n \in FunNames : Memory_get_function(n)

SpecLookup == Init /\ [][NextLookup]_vars

\* The three declaring operations at every depth, the empty stack included.
NextDecl ==
    \/ push_scope
    \/ pop_scope
    \/ \E g \in BOOLEAN : add_variable("x", "Num", g)
    \/ \E d \in IdsSyntaxes : add_function_declaration(d)
    \/ \E d \in ImportedDecls : add_existing_function_declaration(d)

SpecDecl == Init /\ [][NextDecl]_vars

\* Frames closed over global variables, public functions and their instances.
NextPop ==
    \/ push_scope
    \/ pop_scope
    \/ add_variable("x", "Num", TRUE)
    \/ \E d \in HandSyntaxes : add_function_declaration(d)
    \/ add_function_instance(0, <<"Num">>, "Num", "block")

SpecPop == Init /\ [][NextPop]_vars

\* Calls through the instantiation protocol.
CallSyntaxes == { d \in DeclSyntaxes : d.body \in {"body_f1", "body_f2"} }

NextCall ==
    \/ push_scope
    \/ pop_scope
    \/ \E d \in CallSyntaxes : add_function_declaration(d)
    \/ \E n \in FunNames, a \in AllArgs : call_function(n, a)

SpecCall == Init /\ [][NextCall]_vars

\* The division node over every token stream of up to MaxTokens tokens.
InitDiv ==
    /\ InitMemory
    /\ InitNode
    /\ tokens \in TokenStreams

NextDiv ==
    \/ Div_parse
    \/ Div_translate

SpecDiv == InitDiv /\ [][NextDiv]_vars

(***************************************************************************)
(* Properties.                                                             *)
(***************************************************************************)
Last(sc) == sc[Len(sc)]

\* The frames of sc that bind variable name n, and the innermost of them.
FramesWithVar(sc, n) == { i \in DOMAIN sc : n \in DOMAIN sc[i].vars }

InnermostVar(sc, n) ==
    IF FramesWithVar(sc, n) = {} THEN None
    ELSE LET i == CHOOSE i \in FramesWithVar(sc, n) : \A j \in FramesWithVar(sc, n) : j <= i
         IN  Some(sc[i].vars[n])

\* C1: get_variable(name) returns the declaration stored in the innermost open
\* frame that binds name, and nothing when no frame binds it; the declaration a
\* call of add_variable has just stored is the one a lookup of its name returns.
C1_Shadowing ==
    /\ \A n \in VarNames : get_variable(scopes, n) = InnermostVar(scopes, n)
    /\ ret.op = "add_variable" =>
          get_variable(scopes, ret.args[1]) =
              Some(VariableDecl(ret.args[1], ret.args[2], ret.val))

\* x: Num in the outer frame, x: Text in the inner one, and the lookup gives Text.
C1_Witness ==
    /\ Len(scopes) = 2
    /\ "x" \in DOMAIN scopes[1].vars /\ scopes[1].vars["x"].kind = "Num"
    /\ "x" \in DOMAIN scopes[2].vars /\ scopes[2].vars["x"].kind = "Text"
    /\ get_variable(scopes, "x") = Some(scopes[2].vars["x"])

\* The global ids handed out so far are 0, 1, 2, ... in order, and the stored
\* declarations carry pairwise different global ids, each one handed out.
C3_Ids ==
    /\ \A k \in DOMAIN var_log : var_log[k] = k - 1
    /\ \A i, j \in DOMAIN scopes : \A n \in DOMAIN scopes[i].vars, m \in DOMAIN scopes[j].vars :
          (<<i, n>> # <<j, m>> /\ scopes[i].vars[n].global_id # None)
              => scopes[i].vars[n].global_id # scopes[j].vars[m].global_id
    /\ \A i \in DOMAIN scopes : \A n \in DOMAIN scopes[i].vars :
          scopes[i].vars[n].global_id # None
              => \E k \in DOMAIN var_log : scopes[i].vars[n].global_id = Some(var_log[k])

\* What one step does to the ids: a global add_variable returns the number of
\* global ids handed out before it, a non-global one returns nothing and moves
\* no counter, and no other operation moves variable_id.
C3_Step ==
    /\ (ret'.op = "add_variable" /\ ret'.args[3]) =>
          /\ ret'.val = Some(Len(var_log))
          /\ var_log' = Append(var_log, Len(var_log))
          /\ variable_id' = variable_id + 1
          /\ Last(scopes').vars[ret'.args[1]].global_id = Some(Len(var_log))
    /\ (ret'.op = "add_variable" /\ ~ret'.args[3]) =>
          /\ ret'.val = None
          /\ Last(scopes').vars[ret'.args[1]].global_id = None
          /\ variable_id' = variable_id
          /\ var_log' = var_log
    /\ ret'.op \notin {"add_variable", "panic"} => variable_id' = variable_id

\* C3: the k-th global add_variable returns k-1, whatever push_scope, pop_scope,
\* function declarations, set_function_map calls or non-global declarations are
\* interleaved; a non-global add_variable returns nothing, stores a declaration
\* without a global id and leaves variable_id alone; no two declarations ever
\* receive the same global id.
C3_GlobalIds == [][C3_Ids' /\ C3_Step]_vars

\* Three global ids are out, the first of them in a frame that was popped since.
C3_Witness ==
    /\ var_log = <<0, 1, 2>>
    /\ ret.op = "add_variable" /\ ret.val = Some(2)
    /\ function_map.current_id > 0
    /\ \A i \in DOMAIN scopes : \A n \in DOMAIN scopes[i].vars :
          scopes[i].vars[n].global_id # Some(0)

\* C7 (as claimed): add_variable returns nothing exactly when the name was
\* already bound in the innermost frame.
C7_ConflictSignalled ==
    [][ret'.op = "add_variable" =>
          (ret'.val = None <=> ret'.args[1] \in DOMAIN Last(scopes).vars)]_vars

\* C4: add_function_declaration returns the newly allocated id exactly when the
\* innermost frame did not hold the name before the call, and nothing exactly
\* when it did; the same name in an outer frame is no conflict.
C4_DeclarationResult ==
    [][ret'.op = "add_function_declaration" =>
          LET name == ret'.args[1].name
          IN  /\ (ret'.val # None) <=> (name \notin DOMAIN Last(scopes).funs)
              /\ ret'.val # None =>
                    /\ ret'.val = Some(function_map.current_id)
                    /\ ret'.val[1] \notin DOMAIN function_map.map
                    /\ ret'.val[1] \in DOMAIN function_map'.map
                    /\ Last(scopes').funs[name].id = ret'.val[1]]_vars

\* An id came back although the outer frame holds a function of that name.
C4_Witness ==
    /\ ret.op = "add_function_declaration"
    /\ ret.val # None
    /\ Len(scopes) = 2
    /\ ret.args[1].name \in DOMAIN scopes[1].funs

\* C5 (as claimed): the ids add_function_declaration gave to the declarations
\* it created on this Memory are pairwise different.
C5_FunctionIdsUnique ==
    \A i, j \in DOMAIN fun_log : i # j => fun_log[i] # fun_log[j]

\* C6 (as claimed): Exports holds public declarations only, each once, and
\* every stored public declaration is among them.
C6_ExportedOnce ==
    /\ \A i \in DOMAIN exports : exports[i].is_public
    /\ \A i, j \in DOMAIN exports : i # j => exports[i] # exports[j]
    /\ \A d \in StoredDecls : d.is_public => \E i \in DOMAIN exports : exports[i] = d

\* C8: add_existing_function_declaration(decl) returns true exactly when the
\* innermost frame did not hold decl.name; either way the frame then maps
\* decl.name to decl as given, and the function map is as it was.
C8_ExistingResult ==
    [][ret'.op = "add_existing_function_declaration" =>
          LET decl == ret'.args[1]
          IN  /\ ret'.val = (decl.name \notin DOMAIN Last(scopes).funs)
              /\ Len(scopes') = Len(scopes)
              /\ Last(scopes').funs[decl.name] = decl
              /\ function_map' = function_map]_vars

\* The second registration of a name in a frame: false, and the frame holds decl.
C8_Witness ==
    /\ ret.op = "add_existing_function_declaration"
    /\ ret.val = FALSE
    /\ Last(scopes).funs[ret.args[1].name] = ret.args[1]

\* C2: when every call goes through the instantiation protocol, each function
\* id holds as many instances as distinct argument-type sequences it was called
\* with, and no two instances of an id have the same argument types.
C2_InstanceCache ==
    \A id \in DOMAIN function_map.map :
        /\ Len(function_map.map[id]) = Cardinality({ c \in called : c[1] = id })
        /\ \A i, j \in DOMAIN function_map.map[id] :
              i # j => function_map.map[id][i].args # function_map.map[id][j].args

\* A call reused an instance of a function that has two of them.
C2_Witness ==
    /\ ret.op = "call_function"
    /\ \E id \in DOMAIN function_map.map :
          /\ Len(function_map.map[id]) = 2
          /\ \E c \in called : c[1] = id /\ c[2] = ret.args[2]

\* The token streams that are a division of two literals.
NumWords == {"5", "2"}
OperandWords == {"5", "2", "a"}
IsDivision(toks) ==
    /\ Len(toks) >= 3
    /\ toks[1] \in OperandWords /\ toks[2] = "/" /\ toks[3] \in OperandWords

\* C9: parse returns Ok only if both operands report Num; a division with an
\* operand of another type ends in a TypeMismatch carrying the '/' token and the
\* message; a division node reports Num whatever its operands report.
C9_TypeEnforcement ==
    /\ Div_get_type(div) = "Num"
    /\ result.result = "Ok" =>
          /\ phase \in {"Parsed", "Translated"}
          /\ Expr_get_type(div.left) = "Num" /\ Expr_get_type(div.right) = "Num"
          /\ IsDivision(tokens) /\ tokens[1] \in NumWords /\ tokens[3] \in NumWords
    /\ (phase # "Constructed" /\ IsDivision(tokens)
            /\ ~(tokens[1] \in NumWords /\ tokens[3] \in NumWords)) =>
          /\ phase = "Failed"
          /\ result.result = "TypeMismatch"
          /\ result.error = [tok |-> Some([word |-> "/", pos |-> 2]),
                             message |-> "Divide operation can only divide numbers"]
    /\ result.result = "TypeMismatch" =>
          IsDivision(tokens) /\ ~(tokens[1] \in NumWords /\ tokens[3] \in NumWords)

\* 5 / "a" was parsed.
C9_Witness ==
    /\ result.result = "TypeMismatch"
    /\ Expr_get_type(div.left) = "Num" /\ Expr_get_type(div.right) = "Text"

\* C10: a node moves Constructed -> Parsed -> Translated only; it is Parsed
\* exactly when parse returned Ok; a node whose parse failed is never translated;
\* translate hands on the left operand, then the right one, combines them under
\* the Div tag and checks no type.
C10_Lifecycle ==
    [][/\ <<phase, phase'>> \in { <<"Constructed", "Parsed">>, <<"Constructed", "Failed">>,
                                   <<"Parsed", "Translated">> }
       /\ phase = "Constructed" =>
             /\ phase' = "Parsed" <=> result'.result = "Ok"
             /\ output' = None /\ translate_meta' = << >>
       /\ phase' = "Translated" =>
             /\ result.result = "Ok" /\ result' = result /\ div' = div
             /\ translate_meta' = translate_meta \o <<tokens[1], tokens[3]>>
             /\ output' = Some([op |-> "Div", left |-> Some(tokens[1]),
                                right |-> Some(tokens[3])])]_vars

\* 5 / 2 was parsed and translated.
C10_Witness ==
    /\ phase = "Translated"
    /\ translate_meta = <<"5", "2">>


\* C11 (as claimed): add_function_instance on an id add_function_declaration
\* allocated appends exactly one instance to that id's sequence, returns the
\* index it got and leaves every other instance alone; no operation removes or
\* rewrites an instance.
C11_AppendOnly ==
    [][/\ \A id \in DOMAIN function_map.map : \A i \in DOMAIN function_map.map[id] :
             /\ id \in DOMAIN function_map'.map
             /\ i \in DOMAIN function_map'.map[id]
             /\ function_map'.map[id][i] = function_map.map[id][i]
       /\ (ret'.op = "add_function_instance"
              /\ \E k \in DOMAIN fun_log : fun_log[k] = ret'.args[1]) =>
             LET id == ret'.args[1]
             IN  /\ id \in DOMAIN function_map.map
                 /\ id \in DOMAIN function_map'.map
                 /\ Len(function_map'.map[id]) = Len(function_map.map[id]) + 1
                 /\ function_map'.map[id][Len(function_map'.map[id])].args = ret'.args[2]
                 /\ ret'.val = Len(function_map.map[id])
                 /\ \A other \in DOMAIN function_map.map \ {id} :
                       /\ other \in DOMAIN function_map'.map
                       /\ function_map'.map[other] = function_map.map[other]]_vars


\* The operations that declare a binding in the innermost frame.
DeclarationOps == {"add_variable", "add_function_declaration", "add_existing_function_declaration"}

\* C12: pop_scope is strictly last-in first-out.  A frame starts empty and only
\* the innermost frame takes declarations, so the frame pop_scope returns, the
\* innermost one, holds exactly the bindings declared while it was innermost;
\* the frames under it stay as they were and the depth drops by one.
C12_Lifo ==
    [][/\ (ret'.op = "pop_scope" /\ scopes # << >>) =>
             /\ ret'.val = Some(Last(scopes))
             /\ Len(scopes') = Len(scopes) - 1
             /\ \A i \in DOMAIN scopes' : scopes'[i] = scopes[i]
       /\ ret'.op = "push_scope" =>
             scopes' = Append(scopes, ScopeUnit_new)
       /\ ret'.op \in DeclarationOps =>
             /\ Len(scopes') = Len(scopes)
             /\ \A i \in 1..(Len(scopes) - 1) : scopes'[i] = scopes[i]
       /\ ret'.op \notin {"pop_scope", "push_scope"} \cup DeclarationOps =>
             scopes' = scopes]_vars

\* An inner frame with a variable and a function, declared over an outer frame
\* that holds another binding of the variable, has just been popped.
C12_Witness ==
    /\ ret.op = "pop_scope"
    /\ ret.val # None
    /\ "x" \in DOMAIN ret.val[1].vars
    /\ "g" \in DOMAIN ret.val[1].funs
    /\ Len(scopes) = 1
    /\ "x" \in DOMAIN scopes[1].vars
    /\ scopes[1].vars["x"] # ret.val[1].vars["x"]


\* C13: pop_scope on an empty scope stack returns nothing, does not abort and
\* leaves the whole Memory as it was; an abort only ever comes from a call that
\* carries a declaration, and the depth never goes below zero.
C13_PopEmpty ==
    [][/\ (ret'.op = "pop_scope" /\ scopes = << >>) =>
             /\ ret'.val = None
             /\ ~panicked'
             /\ scopes' = << >>
             /\ function_map' = function_map
             /\ variable_id' = variable_id
             /\ exports' = exports
       /\ ret'.op = "pop_scope" => ~panicked'
       /\ panicked' => ret'.args # << >>
       /\ get_depth' >= 0]_vars

\* pop_scope has just answered nothing on an empty stack of a Memory that has
\* already handed out a variable id and a function id.
C13_Witness ==
    /\ ret.op = "pop_scope"
    /\ ret.val = None
    /\ scopes = << >>
    /\ ~panicked
    /\ variable_id > 0
    /\ function_map.current_id > 0


\* C14: set_function_map makes this Memory's function map equal to the other
\* context's (same ids, same instances, same next id) and changes neither this
\* Memory's scopes, variable id counter and exports nor the other context.  The
\* map is a copy: whatever changes this Memory's map afterwards
\* (add_function_declaration, add_function_instance) leaves the other's alone.
C14_HandOff ==
    [][/\ (ret'.op = "set_function_map" /\ old_meta' = old_meta) =>
             /\ DOMAIN function_map'.map = DOMAIN old_meta.map
             /\ \A id \in DOMAIN old_meta.map : function_map'.map[id] = old_meta.map[id]
             /\ function_map'.current_id = old_meta.current_id
             /\ scopes' = scopes
             /\ variable_id' = variable_id
             /\ exports' = exports
       /\ function_map' # function_map => old_meta' = old_meta]_vars

\* This Memory, with a frame, a declaration and an export of its own, has just
\* taken over a map in which the other context stored an instance.
C14_Witness ==
    /\ ret.op = "set_function_map"
    /\ function_map = old_meta
    /\ \E id \in DOMAIN function_map.map : Len(function_map.map[id]) > 0
    /\ scopes # << >>
    /\ Len(fun_log) > 0
    /\ Len(exports) > 0


\* C15: get_variable(name) and get_function(name) answer nothing exactly when no
\* open frame binds the name (so always on an empty scope stack); they never
\* abort and never change any part of the Memory.
C15_Unresolved ==
    [][/\ ret'.op = "get_variable" =>
             /\ ret'.val = None <=>
                   \A i \in DOMAIN scopes : ret'.args[1] \notin DOMAIN scopes[i].vars
             /\ ~panicked'
             /\ UNCHANGED <<scopes, function_map, variable_id, exports>>
       /\ ret'.op = "get_function" =>
             /\ ret'.val = None <=>
                   \A i \in DOMAIN scopes : ret'.args[1] \notin DOMAIN scopes[i].funs
             /\ ~panicked'
             /\ UNCHANGED <<scopes, function_map, variable_id, exports>>]_vars

\* get_function has just answered nothing for a name no frame binds, in a
\* Memory whose two open frames bind another function and a variable.
C15_Witness ==
    /\ ret.op = "get_function"
    /\ ret.val = None
    /\ ~panicked
    /\ Len(scopes) = 2
    /\ get_function(scopes, "g") # None
    /\ get_variable(scopes, "x") # None


\* C16: an add_function_declaration that answers nothing because the innermost
\* frame already binds the name is not a no-op.  get_function(name) afterwards
\* answers the new declaration (new parameters, body and id), and a fresh id
\* has been consumed from the function map: a declaration that succeeds right
\* after the conflict gets the id two above the one handed out before it.
C16_ConflictOverwrites ==
    [][/\ (ret'.op = "add_function_declaration" /\ ret'.val = None /\ ~panicked') =>
             LET d == ret'.args[1]
                 new == FunctionDecl(d, IsTyped(d.args), function_map.current_id)
             IN  /\ d.name \in DOMAIN Last(scopes).funs
                 /\ get_function(scopes', d.name) = Some(new)
                 /\ new.id \notin DOMAIN function_map.map
                 /\ new.id \in DOMAIN function_map'.map
                 /\ function_map'.current_id = function_map.current_id + 1
       /\ (/\ ret.op = "add_function_declaration" /\ ret.val = None
           /\ ret'.op = "add_function_declaration" /\ ret'.val # None
           /\ Len(fun_log) >= 2) =>
             ret'.val = Some(fun_log[Len(fun_log) - 1] + 2)]_vars

\* A declaration of f with other parameters and another body has just
\* conflicted with the f the innermost frame held, and took the second id.
C16_Witness ==
    /\ ret.op = "add_function_declaration"
    /\ ret.val = None
    /\ ~panicked
    /\ ret.args[1].body = "body_f2"
    /\ get_function(scopes, "f") # None
    /\ get_function(scopes, "f")[1].body = "body_f2"
    /\ get_function(scopes, "f")[1].id = 1
    /\ \E i \in DOMAIN exports : exports[i].body = "body_f1" /\ exports[i].id = 0


\* C17: add_variable, add_function_declaration and
\* add_existing_function_declaration abort when the scope stack is empty;
\* none of them opens a frame or stores a binding (in a frame, the function
\* map or the exports), so only push_scope ever adds a frame, an empty one,
\* and every stored declaration sits in a frame push_scope opened.
C17_NeedsScope ==
    [][/\ (scopes = << >> /\ ret'.op \notin {"push_scope", "pop_scope"}) =>
             /\ panicked'
             /\ ret'.op = "panic"
             /\ ret'.args # << >>
             /\ scopes' = << >>
             /\ function_map' = function_map
             /\ exports' = exports
       /\ panicked' => scopes = << >>
       /\ ret'.op \in DeclarationOps => scopes # << >> /\ Len(scopes') = Len(scopes)
       /\ Len(scopes') > Len(scopes) =>
             ret'.op = "push_scope" /\ scopes' = Append(scopes, ScopeUnit_new)]_vars

\* add_existing_function_declaration of a public declaration has just aborted
\* on a stack that frames, a variable and a function had been through before.
C17_Witness ==
    /\ panicked
    /\ scopes = << >>
    /\ Len(ret.args) = 1
    /\ ret.args[1].body = "body_imported"
    /\ exports = << >>
    /\ variable_id > 0
    /\ function_map.current_id > 0


\* C18: pop_scope discards only the frame's name bindings.  The function map
\* (ids and every id's instances), the variable id counter and the exports are
\* as before; so the instances of a function declared in the popped frame are
\* still returned by get_function_instances, a public function declared in it
\* is still exported, and its global ids are never handed out again.
C18_PopKeepsRegistries ==
    [][/\ ret'.op = "pop_scope" =>
             /\ function_map' = function_map
             /\ variable_id' = variable_id
             /\ exports' = exports
       /\ (ret'.op = "pop_scope" /\ ret'.val # None) =>
             LET frame == ret'.val[1]
             IN  /\ \A n \in DOMAIN frame.funs :
                       /\ get_function_instances(function_map', frame.funs[n].id) =
                             get_function_instances(function_map, frame.funs[n].id)
                       /\ frame.funs[n].is_public =>
                             \E i \in DOMAIN exports' : exports'[i] = frame.funs[n]
                 /\ \A n \in DOMAIN frame.vars :
                       frame.vars[n].global_id # None =>
                          frame.vars[n].global_id[1] < variable_id'
       /\ (ret'.op = "add_variable" /\ ret'.val # None) =>
             \A k \in DOMAIN var_log : var_log[k] # ret'.val[1]]_vars

\* A frame has just been popped in which a public function with a stored
\* instance and a global variable were declared.
C18_Witness ==
    /\ ret.op = "pop_scope"
    /\ ret.val # None
    /\ "f" \in DOMAIN ret.val[1].funs
    /\ ret.val[1].funs["f"].is_public
    /\ get_function_instances(function_map, ret.val[1].funs["f"].id) # None
    /\ Len(get_function_instances(function_map, ret.val[1].funs["f"].id)[1]) > 0
    /\ "x" \in DOMAIN ret.val[1].vars
    /\ ret.val[1].vars["x"].global_id # None
    /\ get_function(scopes, "f") = None


\* C19: the available names agree with lookup.  get_available_variables() is
\* the set of names some open frame binds, which is the set of names n for
\* which get_variable(n) answers a declaration; being a set, it holds a name
\* bound in several frames once.  Likewise get_available_functions() and
\* get_function.
C19_AvailableNames ==
    /\ get_available_variables(scopes) =
          { n \in VarNames : get_variable(scopes, n) # None }
    /\ get_available_variables(scopes) =
          { n \in VarNames : \E i \in DOMAIN scopes : n \in DOMAIN scopes[i].vars }
    /\ get_available_functions(scopes) =
          { n \in FunNames : get_function(scopes, n) # None }
    /\ get_available_functions(scopes) =
          { n \in FunNames : \E i \in DOMAIN scopes : n \in DOMAIN scopes[i].funs }

\* Two open frames: x is bound in both, y only in the outer one, f only in
\* the outer one and g in neither.
C19_Witness ==
    /\ Len(scopes) = 2
    /\ DOMAIN scopes[1].vars = {"x", "y"}
    /\ DOMAIN scopes[2].vars = {"x"}
    /\ DOMAIN scopes[1].funs = {"f"}
    /\ DOMAIN scopes[2].funs = {}
    /\ get_available_variables(scopes) = {"x", "y"}
    /\ get_available_functions(scopes) = {"f"}


\* The declarations the exports hold.
ExportedDecls == { exports[i] : i \in DOMAIN exports }

\* C20: a FunctionDecl stored by add_function_declaration is typed if and only
\* if none of its parameters is Generic, so a declaration without parameters
\* is typed.  The flag is fixed at declaration: a stored declaration changes
\* only by a declaration of its name replacing it in the innermost frame, and
\* an exported one never changes.
C20_TypedFlag ==
    [][/\ (ret'.op = "add_function_declaration" /\ ~panicked') =>
             LET d == Last(scopes').funs[ret'.args[1].name]
             IN  /\ d.args = ret'.args[1].args
                 /\ d.typed <=> \A i \in DOMAIN d.args : d.args[i][2] # "Generic"
                 /\ d.args = << >> => d.typed
       /\ \A d \in StoredDecls' \cup ExportedDecls' :
             /\ d.typed <=> \A i \in DOMAIN d.args : d.args[i][2] # "Generic"
             /\ d.args = << >> => d.typed
       /\ \A i \in DOMAIN scopes : \A n \in DOMAIN scopes[i].funs :
             (/\ i \in DOMAIN scopes'
              /\ n \in DOMAIN scopes'[i].funs
              /\ scopes'[i].funs[n] # scopes[i].funs[n]) =>
                 /\ i = Len(scopes)
                 /\ ret'.op \in {"add_function_declaration",
                                 "add_existing_function_declaration"}
                 /\ ret'.args[1].name = n
       /\ \A i \in DOMAIN exports : i \in DOMAIN exports' /\ exports'[i] = exports[i]]_vars

\* The frames hold an f with a Generic parameter (not typed), an f with a Num
\* parameter (typed) and a g without parameters (typed).
C20_Witness ==
    /\ Len(scopes) = 2
    /\ "f" \in DOMAIN scopes[1].funs
    /\ scopes[1].funs["f"].args = << <<"x", "Generic">> >>
    /\ ~scopes[1].funs["f"].typed
    /\ "f" \in DOMAIN scopes[2].funs
    /\ scopes[2].funs["f"].args = << <<"x", "Num">> >>
    /\ scopes[2].funs["f"].typed
    /\ "g" \in DOMAIN scopes[2].funs
    /\ scopes[2].funs["g"].args = << >>
    /\ scopes[2].funs["g"].typed

====
